---- MODULE Spec2Model ----
(***************************************************************************)
(* A model of ringdown.py: the mismatch scorer (waveform_mismatch), the    *)
(* QNM synthesizer (qnm_from_tuple, qnm_modes, qnm_modes_as) and the       *)
(* per-m linear least-squares fitter (fit_ringdown_waveform_LLSQ_S2).      *)
(*                                                                         *)
(* The functions are pure apart from the buffers and dictionaries they are *)
(* handed, so each specification draws one call's arguments in its Init    *)
(* and has one action that runs the call to its return or its exception.   *)
(* Numbers are integers: a waveform sample is an integer, a trapezoid      *)
(* integral is kept as twice its value, and a quotient is classified       *)
(* (zero, nonzero, nan, inf) instead of being computed.                    *)
(***************************************************************************)
EXTENDS Integers, Sequences, FiniteSets, TLC

VARIABLES pc, call, ret

vars == <<pc, call, ret>>

(***************************************************************************)
(* Bounds of the model.                                                    *)
(***************************************************************************)
MaxEll == 3        \* largest ell of a waveform
MaxN == 3          \* largest number of time samples of a waveform

(***************************************************************************)
(* Arithmetic and numpy indexing helpers.                                  *)
(***************************************************************************)
Abs(x) == IF x < 0 THEN -x ELSE x

RECURSIVE SumTo(_, _)
SumTo(f, n) == IF n = 0 THEN 0 ELSE f[n] + SumTo(f, n - 1)

\* sf.LM_index(ell, m, ell_min): the 0-based column of mode (ell, m).
LM_index(ell, m, ell_min) == ell * (ell + 1) - ell_min * ell_min + m

\* Number of (ell, m) columns of a waveform with ell in ell_min..ell_max.
n_modes(ell_min, ell_max) == ell_max * (ell_max + 2) - ell_min * ell_min + 1

\* The 1-based position a numpy integer index idx selects in an axis of
\* length n: a negative index counts from the end; 0 stands for IndexError.
PyIndex(idx, n) ==
    IF idx >= 0 /\ idx < n THEN idx + 1
    ELSE IF idx < 0 /\ idx >= -n THEN idx + n + 1
    ELSE 0

\* The LM array of a waveform: column c holds mode LM[c] = <<ell, m>>.
LMarray(ell_min, ell_max) ==
    [c \in 1..n_modes(ell_min, ell_max) |->
        LET i == c - 1 + ell_min * ell_min
            l == CHOOSE l \in ell_min..ell_max : l * l <= i /\ i < (l + 1) * (l + 1)
        IN  <<l, i - l * (l + 1)>>]

\* numpy broadcasting of two axis lengths; -1 stands for ValueError.
Broadcast(a, b) ==
    IF a = b THEN a ELSE IF a = 1 THEN b ELSE IF b = 1 THEN a ELSE -1

\* The element of s that broadcasting pairs with position i.
BAt(s, i) == IF Len(s) = 1 THEN s[1] ELSE s[i]

(***************************************************************************)
(* Waveforms: a time axis t, the ell range and data[time][column].         *)
(***************************************************************************)
Waveform(t, ell_min, ell_max, data) ==
    [t |-> t, ell_min |-> ell_min, ell_max |-> ell_max, data |-> data]

NCols(h) == n_modes(h.ell_min, h.ell_max)

\* h[a:b] on the time axis, a and b 0-based as in Python (a, b >= 0).
TimeSlice(h, a, b) ==
    [h EXCEPT !.t = SubSeq(h.t, a + 1, b), !.data = SubSeq(h.data, a + 1, b)]

\* np.argmin(abs(t - x)), 0-based: the first index of a nearest sample.
\* Of an empty axis it is -1 (numpy raises ValueError).
argmin_abs(t, x) ==
    IF Len(t) = 0 THEN -1
    ELSE (CHOOSE i \in 1..Len(t) :
            \A j \in 1..Len(t) :
                \/ Abs(t[j] - x) > Abs(t[i] - x)
                \/ Abs(t[j] - x) = Abs(t[i] - x) /\ j >= i) - 1

\* h.norm(): per time sample, the sum over the columns of |data|^2.
norm(h) == [i \in 1..Len(h.data) |->
               SumTo([c \in 1..Len(h.data[i]) |-> h.data[i][c] * h.data[i][c]],
                     Len(h.data[i]))]

\* Twice scipy's trapezoid(y, x): d = diff(x), sum of d * (y[1:] + y[:-1]),
\* the two factors broadcast against each other.  "error" for ValueError.
trapezoid2(y, x) ==
    LET nd == IF Len(x) = 0 THEN 0 ELSE Len(x) - 1
        ns == IF Len(y) = 0 THEN 0 ELSE Len(y) - 1
        d == [i \in 1..nd |-> x[i + 1] - x[i]]
        s == [i \in 1..ns |-> y[i + 1] + y[i]]
        n == Broadcast(nd, ns)
    IN  IF n < 0 THEN [ok |-> FALSE, v |-> 0]
        ELSE [ok |-> TRUE, v |-> SumTo([i \in 1..n |-> BAt(d, i) * BAt(s, i)], n)]

\* A resampling that takes the first samples of h instead of evaluating at tprime.
interpolate_by_position(h, tprime) ==
    [h EXCEPT !.t = tprime, !.data = [i \in 1..Len(tprime) |-> h.data[i]]]

\* h.interpolate(tprime): a cubic spline through the samples of h, evaluated
\* at tprime.  The model's waveforms are affine in time, which the spline
\* reproduces, so its value is that of the line through two neighbouring
\* samples.  The spline needs two samples.
SegmentOf(t, x) ==
    LET below == {j \in 1..(Len(t) - 1) : t[j] <= x}
    IN  IF below = {} THEN 1 ELSE CHOOSE j \in below : \A k \in below : k <= j

interpolate(h, tprime) ==
    [h EXCEPT !.t = tprime,
              !.data = [i \in 1..Len(tprime) |->
                  LET j == SegmentOf(h.t, tprime[i])
                  IN  [c \in 1..Len(h.data[j]) |->
                          h.data[j][c]
                          + ((h.data[j + 1][c] - h.data[j][c]) * (tprime[i] - h.t[j]))
                            \div (h.t[j + 1] - h.t[j])]]]

(***************************************************************************)
(* waveform_mismatch(h_A, h_B, modes, t1, t2).                             *)
(* modes is [given, list]: given = FALSE is Python's None.                 *)
(***************************************************************************)
\* The (L, M) pairs the zeroing loop visits: L from 2 to h_A's ell_max.
ZeroLoopModes(ell_max) ==
    {p \in {<<L, M>> : L \in 2..ell_max, M \in -ell_max..ell_max} : Abs(p[2]) <= p[1]}

\* The numpy column indices the loop multiplies by 0 in waveform h.
ZeroedIndices(h, loop_ell_max, modes) ==
    {LM_index(p[1], p[2], h.ell_min) :
        p \in {q \in ZeroLoopModes(loop_ell_max) : q \notin modes.list}}

ZeroColumns(h, idxs) ==
    LET cols == {PyIndex(i, NCols(h)) : i \in idxs}
    IN  [h EXCEPT !.data = [i \in 1..Len(h.data) |->
                               [c \in 1..Len(h.data[i]) |->
                                   IF c \in cols THEN 0 ELSE h.data[i][c]]]]

RECURSIVE GCD(_, _)
GCD(a, b) == IF b = 0 THEN a ELSE GCD(b, a % b)

\* The value returned: 1 - X / sqrt(Y * Z), from twice the three integrals.
\* It is 0 when X >= 0 and X * X = Y * Z, that is X / Y = Z / X; the two
\* fractions are compared in lowest terms.
Score(X2, Y2, Z2) ==
    IF Y2 = 0 \/ Z2 = 0
    THEN (IF X2 = 0 THEN "nan" ELSE "inf")
    ELSE IF X2 <= 0 THEN "nonzero"
    ELSE LET g == GCD(X2, Y2)
             x == X2 \div g
             y == Y2 \div g
         IN  IF X2 % y = 0 /\ Z2 % x = 0 /\ X2 \div y = Z2 \div x THEN "zero" ELSE "nonzero"

MismatchRet(status, kind, branch, nA, nB, zA, zB) ==
    [status |-> status, kind |-> kind, branch |-> branch, nA |-> nA, nB |-> nB,
     zA |-> zA, zB |-> zB]

\* Lines 57-61: the three integrals of the two restricted copies.
Integrate(A, B, branch, zA, zB) ==
    LET nT == Broadcast(Len(A.t), Len(B.t))
        nC == Broadcast(NCols(A), NCols(B))
        prod == [i \in 1..nT |->
                    SumTo([c \in 1..nC |-> BAt(BAt(A.data, i), c) * BAt(BAt(B.data, i), c)], nC)]
        X == trapezoid2(prod, A.t)
        Y == trapezoid2(norm(A), A.t)
        Z == trapezoid2(norm(B), B.t)
    IN  IF nT < 0 \/ nC < 0 \/ ~X.ok
        THEN MismatchRet("ValueError", "none", branch, Len(A.t), Len(B.t), zA, zB)
        ELSE MismatchRet("ok", Score(X.v, Y.v, Z.v), branch, Len(A.t), Len(B.t), zA, zB)

waveform_mismatch(h_A, h_B, modes, t1, t2) ==
    LET idxA == IF modes.given THEN ZeroedIndices(h_A, h_A.ell_max, modes) ELSE {}
        idxB == IF modes.given THEN ZeroedIndices(h_B, h_A.ell_max, modes) ELSE {}
        zA == ZeroColumns(h_A, idxA)
        zB == ZeroColumns(h_B, idxB)
        A == TimeSlice(zA, argmin_abs(h_A.t, t1) + 1, argmin_abs(h_A.t, t2) + 1)
    IN  IF \/ \E i \in idxA : PyIndex(i, NCols(h_A)) = 0
           \/ \E i \in idxB : PyIndex(i, NCols(h_B)) = 0
        THEN MismatchRet("IndexError", "none", "none", 0, 0, <<>>, <<>>)
        ELSE IF Len(h_A.t) = 0
        THEN MismatchRet("ValueError", "none", "none", 0, 0, zA.data, zB.data)
        ELSE IF Len(A.t) # Len(zB.t)
        THEN IF Len(zB.t) < 2
             THEN MismatchRet("ValueError", "none", "interpolate", Len(A.t), 0,
                              zA.data, zB.data)
             ELSE Integrate(A, interpolate(zB, A.t), "interpolate", zA.data, zB.data)
        ELSE IF Len(h_B.t) = 0
        THEN MismatchRet("ValueError", "none", "window", Len(A.t), 0, zA.data, zB.data)
        ELSE Integrate(A,
                       TimeSlice(zB, argmin_abs(h_B.t, t1) + 1, argmin_abs(h_B.t, t2) + 1),
                       "window", zA.data, zB.data)

(***************************************************************************)
(* The calls of waveform_mismatch the model draws.                         *)
(***************************************************************************)
EllRanges == {r \in (0..MaxEll) \X (0..MaxEll) : r[1] <= r[2]}

\* Ascending time axes: n samples from 0, one or two apart.
TimeAxes == {[i \in 1..n |-> step * (i - 1)] : n \in 0..MaxN, step \in 1..2}

\* The time axes of h_A: samples one apart.
UnitAxes == {[i \in 1..n |-> i - 1] : n \in 0..MaxN}

\* Waveforms affine in time: column c at time t holds p[1] * c + p[2] * t,
\* nonzero everywhere unless the waveform is all zero.  The pairs are the
\* patterns of h_A and h_B.
PatternPairs == {<<<<1, 1>>, <<1, 1>>>>, <<<<1, 1>>, <<2, 1>>>>, <<<<0, 0>>, <<0, 0>>>>}

SampleWaveform(t, r, pat) ==
    Waveform(t, r[1], r[2],
             [i \in 1..Len(t) |->
                 [c \in 1..n_modes(r[1], r[2]) |-> pat[1] * c + pat[2] * t[i]]])

NoModes == [given |-> FALSE, list |-> {}]

ModeLists ==
    {NoModes} \cup
    {[given |-> TRUE, list |-> l] : l \in {{<<2, 2>>}, {<<1, 1>>, <<2, -2>>}}}

MismatchCall(tA, tB, rA, rB, pp, ms, t1, t2) ==
    [h_A |-> SampleWaveform(tA, rA, pp[1]), h_B |-> SampleWaveform(tB, rB, pp[2]),
     modes |-> ms, t1 |-> t1, t2 |-> t2]

NoRet == MismatchRet("none", "none", "none", 0, 0, <<>>, <<>>)

InitMismatch ==
    /\ pc = "call"
    /\ \E tA \in UnitAxes, tB \in TimeAxes, rA \in EllRanges, pp \in PatternPairs,
          ms \in ModeLists, t1 \in 0..MaxN, t2 \in 0..MaxN :
          \E rB \in {rA, <<2, MaxEll>>} :
              /\ t1 <= t2
              /\ call = MismatchCall(tA, tB, rA, rB, pp, ms, t1, t2)
    /\ ret = NoRet

CallMismatch ==
    /\ pc = "call"
    /\ ret' = waveform_mismatch(call.h_A, call.h_B, call.modes, call.t1, call.t2)
    /\ pc' = "done"
    /\ UNCHANGED call

SpecMismatch == InitMismatch /\ [][CallMismatch]_vars

(***************************************************************************)
(* The mode oracle (the qnm package) and qnm_from_tuple.                   *)
(*                                                                         *)
(* The oracle's numbers are stand-ins: exp(-1j * omega) of a mode is a     *)
(* positive integer, distinct for the modes (ell, n) of one m, so that     *)
(* exp(-1j * omega * (t - t_ref)) is a power of it; a mixing coefficient   *)
(* is a small integer, diagonal in ell at spin 0.  The mass is 1.          *)
(***************************************************************************)
s_weight == -2

\* mode_seq.l_max of the cached Kerr sequences.
l_max == 20

RECURSIVE Pow(_, _)
Pow(b, e) == IF e <= 0 THEN 1 ELSE b * Pow(b, e - 1)

\* qnm.angular.ells(s, m, l_max): the ells of the mixing array.
angular_ells(s, m, lmax) ==
    (IF Abs(s) > Abs(m) THEN Abs(s) ELSE Abs(m))..lmax

\* mode_seq(chi) for the sequence (s, ell, m, n): exp(-1j * M * omega) and C.
mode_seq(ell, m, n, chi) ==
    [z |-> 1 + n + 2 * (ell - 2) + (IF m < 0 THEN 4 ELSE 0),
     C |-> [lp \in angular_ells(s_weight, m, l_max) |-> IF lp = ell THEN 2 ELSE chi]]

qnm_from_tuple(tup, chi, mass) ==
    LET ell == tup[1]
        m == tup[2]
        n == tup[3]
        sign == tup[4]
        seq == mode_seq(ell, IF sign = 1 THEN m ELSE -m, n, chi)
        ells == angular_ells(s_weight, m, l_max)
    IN  IF sign # 1 /\ sign # -1
        THEN [ok |-> FALSE, z |-> 0, C |-> <<>>, ells |-> {}]
        ELSE [ok |-> TRUE,
              z |-> seq.z,
              C |-> IF sign = -1
                    THEN [lp \in ells |-> (IF (ell + lp) % 2 = 0 THEN 1 ELSE -1) * seq.C[lp]]
                    ELSE seq.C,
              ells |-> ells]

(***************************************************************************)
(* qnm_modes(chi, mass, mode_dict, dest, t_ref, t, ell_min, ell_max).      *)
(* chi and mass are [is_array, value]: an array holds (value + i) % 2 at   *)
(* sample i for chi and 1 for mass.  mode_dict is the sequence of its      *)
(* [key, term] items in insertion order.  dest is [given, shape, dtype,    *)
(* data].                                                                  *)
(***************************************************************************)
ChiAt(chi, i) == IF chi.is_array THEN (chi.value + i) % 2 ELSE chi.value

SynthStep(status, data) == [status |-> status, data |-> data]

\* The columns (_l, _m) of LM with _m = m, and the first of them whose _l is
\* not among ells (0 if there is none): there c_l stays an empty array and
\* the += cannot broadcast.
FirstMissing(LM, m, ells) ==
    LET miss == {c \in 1..Len(LM) : LM[c][2] = m /\ LM[c][1] \notin ells}
    IN  IF miss = {} THEN 0 ELSE CHOOSE c \in miss : \A d \in miss : c <= d

\* Lines 198-212: a QNM term with scalar chi and mass.
AddQNMScalar(data, term, chi, mass, t, t_ref, LM) ==
    LET q == qnm_from_tuple(term.mode, chi.value, 1)
        m == term.mode[2]
        fm == FirstMissing(LM, m, q.ells)
    IN  IF ~q.ok THEN SynthStep("ValueError:sign", data)
        ELSE IF ~term.hasA THEN SynthStep("KeyError", data)
        ELSE LET new == [i \in 1..Len(t) |-> [c \in 1..Len(LM) |->
                            IF LM[c][2] = m /\ LM[c][1] \in q.ells /\ (fm = 0 \/ c < fm)
                            THEN data[i][c] + term.A * Pow(q.z, t[i] - t_ref) * q.C[LM[c][1]]
                            ELSE data[i][c]]]
             IN  IF fm # 0 /\ Len(t) >= 1
                 THEN SynthStep("ValueError:broadcast", new)
                 ELSE SynthStep("ok", new)

\* Lines 169-196: a QNM term with chi or mass an array, sample by sample.
AddQNMArray(data, term, chi, mass, t, t_ref, LM) ==
    LET m == term.mode[2]
        q0 == qnm_from_tuple(term.mode, ChiAt(chi, 0), 1)
        fm == FirstMissing(LM, m, q0.ells)
        row(i, upto) == [c \in 1..Len(LM) |->
            LET q == qnm_from_tuple(term.mode, ChiAt(chi, i - 1), 1)
            IN  IF LM[c][2] = m /\ LM[c][1] \in q.ells /\ (upto = 0 \/ c < upto)
                THEN data[i][c] + term.A * Pow(q.z, t[i] - t_ref) * q.C[LM[c][1]]
                ELSE data[i][c]]
    IN  IF Len(t) = 0 THEN SynthStep("ok", data)
        ELSE IF ~q0.ok THEN SynthStep("ValueError:sign", data)
        ELSE IF ~term.hasA THEN SynthStep("KeyError", data)
        ELSE IF fm # 0
        THEN SynthStep("ValueError:broadcast",
                       [i \in 1..Len(t) |-> IF i = 1 THEN row(1, fm) ELSE data[i]])
        ELSE SynthStep("ok", [i \in 1..Len(t) |-> row(i, 0)])

\* Lines 213-226: a term with an explicit frequency and a target mode.
AddOther(data, term, t, t_ref, LM, ell_min) ==
    LET col == PyIndex(LM_index(term.target[1], term.target[2], ell_min), Len(LM))
    IN  IF ~term.hasA THEN SynthStep("KeyError", data)
        ELSE IF col = 0 THEN SynthStep("IndexError", data)
        ELSE SynthStep("ok", [i \in 1..Len(t) |-> [c \in 1..Len(LM) |->
                 IF c = col
                 THEN data[i][c] + term.A * Pow(term.omega, t[i] - t_ref)
                 ELSE data[i][c]]])

AddTerm(data, term, chi, mass, t, t_ref, LM, ell_min) ==
    IF term.type = "QNM"
    THEN IF chi.is_array \/ mass.is_array
         THEN AddQNMArray(data, term, chi, mass, t, t_ref, LM)
         ELSE AddQNMScalar(data, term, chi, mass, t, t_ref, LM)
    ELSE IF term.type = "other"
    THEN AddOther(data, term, t, t_ref, LM, ell_min)
    ELSE SynthStep("ValueError:type", data)

\* The loop over mode_dict.values(), from item k on, stopped by the first raise.
RECURSIVE AddTerms(_, _, _, _, _, _, _, _, _)
AddTerms(data, mode_dict, k, chi, mass, t, t_ref, LM, ell_min) ==
    IF k > Len(mode_dict) THEN SynthStep("ok", data)
    ELSE LET r == AddTerm(data, mode_dict[k].term, chi, mass, t, t_ref, LM, ell_min)
         IN  IF r.status # "ok" THEN r
             ELSE AddTerms(r.data, mode_dict, k + 1, chi, mass, t, t_ref, LM, ell_min)

ZeroData(nt, nc) == [i \in 1..nt |-> [c \in 1..nc |-> 0]]

\* A variant of the dest check that clears the buffer before validating it.
CheckDest_fill_first(dest, d_shape) ==
    [ok |-> ~dest.given \/ (dest.shape = d_shape /\ dest.dtype = "complex"),
     dest |-> IF dest.given
              THEN [dest EXCEPT !.data = ZeroData(dest.shape[1], dest.shape[2])]
              ELSE dest]

\* Lines 156-162: dest must have the shape (len(t), len(LM)) and dtype complex;
\* it is filled with zeros only once it has passed.
CheckDest(dest, d_shape) ==
    IF ~dest.given THEN [ok |-> TRUE, dest |-> dest]
    ELSE IF dest.shape # d_shape \/ dest.dtype # "complex"
    THEN [ok |-> FALSE, dest |-> dest]
    ELSE [ok |-> TRUE, dest |-> [dest EXCEPT !.data = ZeroData(d_shape[1], d_shape[2])]]

\* data_functor, called once by modes_constructor with t and the LM array of
\* ell_min..ell_max.  Returns the status, the data and dest as it is left.
qnm_modes(chi, mass, mode_dict, dest, t_ref, t, ell_min, ell_max) ==
    LET LM == LMarray(ell_min, ell_max)
        d_shape == <<Len(t), Len(LM)>>
        chk == CheckDest(dest, d_shape)
        r == AddTerms(ZeroData(d_shape[1], d_shape[2]), mode_dict, 1,
                      chi, mass, t, t_ref, LM, ell_min)
    IN  IF ~chk.ok
        THEN [status |-> "TypeError", data |-> <<>>, dest |-> chk.dest]
        ELSE [status |-> r.status, data |-> r.data,
              dest |-> IF dest.given THEN [dest EXCEPT !.data = r.data] ELSE dest]

\* qnm_modes_as: the time axis and the ell range are those of W_other.
qnm_modes_as(chi, mass, mode_dict, W_other, dest, t_ref) ==
    qnm_modes(chi, mass, mode_dict, dest, t_ref, W_other.t, W_other.ell_min, W_other.ell_max)

(***************************************************************************)
(* The calls of qnm_modes the model draws.                                 *)
(***************************************************************************)
QNMTerm(mode, A, hasA) ==
    [type |-> "QNM", mode |-> mode, A |-> A, hasA |-> hasA, omega |-> 1, target |-> <<2, 2>>]

OtherTerm(omega, A, target) ==
    [type |-> "other", mode |-> <<2, 2, 0, 1>>, A |-> A, hasA |-> TRUE,
     omega |-> omega, target |-> target]

SynthTerms ==
    {QNMTerm(<<2, 2, 0, 1>>, 1, TRUE), QNMTerm(<<2, 2, 0, 1>>, 2, TRUE),
     QNMTerm(<<2, 1, 0, -1>>, 1, TRUE), QNMTerm(<<3, 0, 1, 1>>, 1, TRUE),
     QNMTerm(<<2, 2, 0, 0>>, 1, TRUE), QNMTerm(<<2, 2, 0, 1>>, 0, FALSE),
     OtherTerm(2, 1, <<2, 2>>), OtherTerm(3, 2, <<3, -1>>),
     [QNMTerm(<<2, 2, 0, 1>>, 1, TRUE) EXCEPT !.type = "qnm"]}

SynthDicts ==
    {<<[key |-> 0, term |-> a]>> : a \in SynthTerms}
    \cup {<<[key |-> 0, term |-> a], [key |-> 1, term |-> b]>> : a \in SynthTerms, b \in SynthTerms}

NoDest == [given |-> FALSE, shape |-> <<0, 0>>, dtype |-> "complex", data |-> <<>>]

\* A caller's buffer: of the right shape or a row short, complex or real,
\* holding 7 everywhere.
Dests(nt, nc) ==
    {NoDest} \cup
    {[given |-> TRUE, shape |-> <<r, nc>>, dtype |-> dt,
      data |-> [i \in 1..r |-> [c \in 1..nc |-> 7]]] :
        r \in {nt, nt + 1}, dt \in {"complex", "float"}}

InitSynth ==
    /\ pc = "call"
    /\ \E n \in 0..MaxN, r \in EllRanges, d \in SynthDicts,
          chi \in {[is_array |-> FALSE, value |-> 0], [is_array |-> FALSE, value |-> 1],
                   [is_array |-> TRUE, value |-> 0]},
          ma \in BOOLEAN :
          \E dest \in Dests(n, n_modes(r[1], r[2])) :
              call = [chi |-> chi,
                      mass |-> [is_array |-> ma, value |-> 1],
                      mode_dict |-> d, dest |-> dest, t_ref |-> 0,
                      t |-> [i \in 1..n |-> i - 1], ell_min |-> r[1], ell_max |-> r[2]]
    /\ ret = [status |-> "none", data |-> <<>>, dest |-> NoDest]

CallSynth ==
    /\ pc = "call"
    /\ ret' = qnm_modes(call.chi, call.mass, call.mode_dict, call.dest, call.t_ref,
                        call.t, call.ell_min, call.ell_max)
    /\ pc' = "done"
    /\ UNCHANGED call

SpecSynth == InitSynth /\ [][CallSynth]_vars

(***************************************************************************)
(* np.linalg.lstsq(B, A, rcond=None)[0] for a design matrix of one or two  *)
(* columns: the minimum-norm vector among the minimizers of |A - B x|.     *)
(* The minimizers are the solutions of the normal equations; with          *)
(* dependent columns the minimum-norm one is the one parallel to the rows  *)
(* of B.  The solution is looked for among the integer vectors with        *)
(* entries in -MaxAmp..MaxAmp; ok is FALSE when it is not one of them.     *)
(***************************************************************************)
MaxAmp == 2        \* largest amplitude of a term

Dot(u, v, n) == SumTo([r \in 1..n |-> u[r] * v[r]], n)

lstsq1(b, A, n) ==
    LET G == Dot(b, b, n)
        y == Dot(b, A, n)
        sol == {x \in -MaxAmp..MaxAmp : G * x = y}
    IN  IF G = 0 THEN [ok |-> TRUE, x |-> <<0>>]
        ELSE IF sol = {} THEN [ok |-> FALSE, x |-> <<0>>]
        ELSE [ok |-> TRUE, x |-> <<CHOOSE x \in sol : TRUE>>]

lstsq2(b1, b2, A, n) ==
    LET G11 == Dot(b1, b1, n)
        G12 == Dot(b1, b2, n)
        G22 == Dot(b2, b2, n)
        y1 == Dot(b1, A, n)
        y2 == Dot(b2, A, n)
        dependent == \A r \in 1..n : \A q \in 1..n : b1[r] * b2[q] = b1[q] * b2[r]
        sol == {x \in (-MaxAmp..MaxAmp) \X (-MaxAmp..MaxAmp) :
                   /\ G11 * x[1] + G12 * x[2] = y1
                   /\ G12 * x[1] + G22 * x[2] = y2
                   /\ dependent => \A r \in 1..n : x[1] * b2[r] = x[2] * b1[r]}
    IN  IF G11 = 0 /\ G22 = 0 THEN [ok |-> TRUE, x |-> <<0, 0>>]
        ELSE IF sol = {} THEN [ok |-> FALSE, x |-> <<0, 0>>]
        ELSE [ok |-> TRUE, x |-> CHOOSE x \in sol : TRUE]

\* B is the sequence of the columns of the design matrix.
lstsq(B, A, n) ==
    IF Len(B) = 1 THEN lstsq1(B[1], A, n) ELSE lstsq2(B[1], B[2], A, n)

(***************************************************************************)
(* fit_ringdown_waveform_LLSQ_S2(h_ring, modes, times, chi_f, M_f,         *)
(* fixed_QNMs, t_ref).  fixed_QNMs is the caller's dictionary, a sequence  *)
(* of [key, term] items; the value carried through the steps below is that *)
(* same object as the statements leave it.                                 *)
(***************************************************************************)
SetMin(S) == CHOOSE x \in S : \A y \in S : x <= y
SetMax(S) == CHOOSE x \in S : \A y \in S : x >= y

\* Lines 342-347: the azimuthal numbers of the terms, in order of first use.
RECURSIVE m_list(_, _)
m_list(d, k) ==
    IF k = 0 THEN <<>>
    ELSE LET before == m_list(d, k - 1)
             m == d[k].term.mode[2]
         IN  IF \E j \in 1..Len(before) : before[j] = m THEN before
             ELSE Append(before, m)

\* Lines 351-355: the enumerate() positions (1-based here) of the terms of m.
Positions(d, m) ==
    SelectSeq([p \in 1..Len(d) |-> p], LAMBDA p : d[p].term.mode[2] = m)

\* Line 383, term["A"] = 1, and line 397, fixed_QNMs[i]["A"] = ...
SetA(d, p, a) == [d EXCEPT ![p].term.A = a, ![p].term.hasA = TRUE]

\* The position of the item of key k in d, or 0 (KeyError).
KeyPos(d, k) ==
    IF \E p \in 1..Len(d) : d[p].key = k
    THEN CHOOSE p \in 1..Len(d) : d[p].key = k
    ELSE 0

\* Line 379, h_ring[:, :stop]: scri reads the second index as a range of ell,
\* keeps ell_min and the columns of ell_min..stop-1, and raises ValueError
\* when stop - 1 exceeds ell_max.
EllSlice(h, stop) ==
    IF stop - 1 > h.ell_max THEN [ok |-> FALSE, h |-> h]
    ELSE [ok |-> TRUE,
          h |-> [h EXCEPT !.ell_max = stop - 1,
                          !.data = [i \in 1..Len(h.data) |->
                                       SubSeq(h.data[i], 1, n_modes(h.ell_min, stop - 1))]]]

\* Lines 358-371: range(2, ell_max + 1), filtered by modes when given.
FitElls(h_ring, modes, m) ==
    SelectSeq([j \in 1..(h_ring.ell_max - 1) |-> j + 1],
              LAMBDA l : ~modes.given \/ <<l, m>> \in modes.list)

data_index_m(h_ring, modes, m) ==
    LET ls == FitElls(h_ring, modes, m)
    IN  [j \in 1..Len(ls) |-> LM_index(ls[j], m, h_ring.ell_min)]

\* Lines 361-370 with the test on m left out: the ells of every pair.
ModeElls_any(modes, m) == {q[1] : q \in modes.list}

\* Lines 361-370, [l for (l, _m) in modes if _m == m]: the ells the mode
\* subset pairs with m.
ModeElls(modes, m) == {q[1] : q \in {r \in modes.list : r[2] = m}}

GroupInfo(m, idx, lo, hi, ncols, writes) ==
    [m |-> m, data_index |-> idx, ell_min_m |-> lo, ell_max_m |-> hi,
     ncols |-> ncols, writes |-> writes]

GroupRet(status, d, info) == [status |-> status, d |-> d, info |-> info]

\* Lines 395-398: the solved amplitudes are stored under the enumerate()
\* positions used as keys.  writes records, per amplitude, the position it
\* was solved for and the position of the item it was stored in.
RECURSIVE StoreAmplitudes(_, _, _, _, _)
StoreAmplitudes(d, pos, x, count, writes) ==
    IF count > Len(pos) THEN [status |-> "ok", d |-> d, writes |-> writes]
    ELSE LET at == KeyPos(d, pos[count] - 1)
         IN  IF at = 0 THEN [status |-> "KeyError", d |-> d, writes |-> writes]
             ELSE StoreAmplitudes(SetA(d, at, x[count]), pos, x, count + 1,
                                  Append(writes, [solved |-> pos[count], stored |-> at]))

\* Lines 381-387 for the terms of the group from the j-th on: A is set to 1
\* in the term itself, the unit waveform is synthesized and its columns are
\* copied into B.  B is kept as a sequence of flattened columns.
RECURSIVE BuildBasis(_, _, _, _, _, _, _, _, _, _)

\* Line 387 for the j-th term: d1 is the dictionary after line 383, h_QNM the
\* waveform of line 384.
BasisColumn(d1, h_QNM, pos, j, trunc, cols, w, chi_f, M_f, t_ref, B) ==
    LET k == Len(cols)
        nT == Len(trunc.t)
        col == [r \in 1..(nT * w) |->
                   h_QNM.data[((r - 1) \div w) + 1][cols[IF k = 1 THEN 1 ELSE ((r - 1) % w) + 1]]]
    IN  IF h_QNM.status # "ok" THEN [status |-> h_QNM.status, d |-> d1, B |-> B]
        ELSE IF k # w /\ k # 1 THEN [status |-> "ValueError:broadcast", d |-> d1, B |-> B]
        ELSE BuildBasis(d1, pos, j + 1, trunc, cols, w, chi_f, M_f, t_ref, Append(B, col))

BuildBasis(d, pos, j, trunc, cols, w, chi_f, M_f, t_ref, B) ==
    IF j > Len(pos) THEN [status |-> "ok", d |-> d, B |-> B]
    ELSE BasisColumn(SetA(d, pos[j], 1),
                     qnm_modes_as(chi_f, M_f,
                                  <<[key |-> 0, term |-> SetA(d, pos[j], 1)[pos[j]].term]>>,
                                  trunc, NoDest, t_ref),
                     pos, j, trunc, cols, w, chi_f, M_f, t_ref, B)

\* Lines 395-398 done: the outcome of the group.
GroupStored(st, info) == GroupRet(st.status, st.d, [info EXCEPT !.writes = st.writes])

\* Lines 393-398: C is the least-squares solution.
StoreGroup(basis, C, pos, info) ==
    IF ~C.ok THEN GroupRet("unrepresentable", basis.d, info)
    ELSE GroupStored(StoreAmplitudes(basis.d, pos, C.x, 1, <<>>), info)

\* Lines 389-393: the reshape of A and B and the solve.
SolveGroup(basis, pos, trunc, cols, w, k, nT, info) ==
    LET A == [r \in 1..(nT * w) |-> trunc.data[((r - 1) \div w) + 1][cols[((r - 1) % w) + 1]]]
    IN  IF basis.status # "ok" THEN GroupRet(basis.status, basis.d, info)
        ELSE IF nT * k # nT * w THEN GroupRet("ValueError:reshape", basis.d, info)
        ELSE StoreGroup(basis, lstsq(basis.B, A, nT * w), pos, info)

\* Lines 351-398: the least-squares solve of one m.
FitGroup(d, m, h_ring, modes, chi_f, M_f, t_ref) ==
    LET pos == Positions(d, m)
        idx == data_index_m(h_ring, modes, m)
        ls == ModeElls(modes, m)
        ell_min_m == IF modes.given THEN SetMin(ls) ELSE h_ring.ell_min
        ell_max_m == IF modes.given THEN SetMax(ls) ELSE h_ring.ell_max
        w == ell_max_m - ell_min_m + 1
        sl == EllSlice(h_ring, ell_max_m + 1)
        trunc == sl.h
        cols == [j \in 1..Len(idx) |-> PyIndex(idx[j], NCols(trunc))]
        k == Len(idx)
        nT == Len(h_ring.t)
        info == GroupInfo(m, idx, ell_min_m, ell_max_m, NCols(trunc), <<>>)
    IN  IF modes.given /\ ls = {}
        THEN GroupRet("ValueError:min", d, GroupInfo(m, idx, 0, 0, 0, <<>>))
        ELSE IF ~sl.ok THEN GroupRet("ValueError:slice", d, info)
        ELSE IF \E j \in 1..k : cols[j] = 0 THEN GroupRet("IndexError", d, info)
        ELSE SolveGroup(BuildBasis(d, pos, 1, trunc, cols, w, chi_f, M_f, t_ref, <<>>),
                        pos, trunc, cols, w, k, nT, info)

\* Lines 350-398: the groups in the order of m_list, stopped by the first raise.
RECURSIVE FitGroups(_, _, _, _, _, _, _, _, _)

\* The loop of line 350 after the j-th group: r is its outcome.
GroupsStep(r, ms, j, h_ring, modes, chi_f, M_f, t_ref, infos) ==
    IF r.status # "ok"
    THEN [status |-> r.status, d |-> r.d, groups |-> Append(infos, r.info)]
    ELSE FitGroups(r.d, ms, j + 1, h_ring, modes, chi_f, M_f, t_ref, Append(infos, r.info))

FitGroups(d, ms, j, h_ring, modes, chi_f, M_f, t_ref, infos) ==
    IF j > Len(ms) THEN [status |-> "ok", d |-> d, groups |-> infos]
    ELSE GroupsStep(FitGroup(d, ms[j], h_ring, modes, chi_f, M_f, t_ref),
                    ms, j, h_ring, modes, chi_f, M_f, t_ref, infos)

\* Line 406: every (L, M) with L from 2 to ell_max.
AllModes(ell_max) == [given |-> TRUE, list |-> ZeroLoopModes(ell_max)]

\* 0.5 * trapezoid(h_diff.norm()) / trapezoid(h_ring.norm()), classified.
ErrorKind(num, den) ==
    IF den = 0 THEN (IF num = 0 THEN "nan" ELSE "inf")
    ELSE IF num = 0 THEN "zero" ELSE "nonzero"

FitRet(status, d, groups, error, mismatch) ==
    [status |-> status, fixed_QNMs |-> d, groups |-> groups,
     error |-> error, mismatch |-> mismatch]

\* Line 420: g is the outcome of the groups, mm that of line 418.
FitResult(g, error, mm) ==
    IF mm.status # "ok" THEN FitRet(mm.status, g.d, g.groups, error, "none")
    ELSE FitRet("ok", g.d, g.groups, error, mm.kind)

\* Lines 402-418: q is the outcome of the synthesis of line 400.
FitScores(g, q, h_ring, modes, times) ==
    LET h_QNM == [h_ring EXCEPT !.data = q.data]
        modes2 == IF modes.given THEN modes ELSE AllModes(h_ring.ell_max)
        dcols == {PyIndex(LM_index(md[1], md[2], h_ring.ell_min), NCols(h_ring)) :
                     md \in modes2.list}
        h_diff == [h_ring EXCEPT !.data = [i \in 1..Len(h_ring.t) |-> [c \in 1..NCols(h_ring) |->
                      IF c \in dcols THEN h_ring.data[i][c] - h_QNM.data[i][c] ELSE 0]]]
        num == trapezoid2(norm(h_diff), h_diff.t)
        den == trapezoid2(norm(h_ring), h_ring.t)
    IN  IF q.status # "ok" THEN FitRet(q.status, g.d, g.groups, "none", "none")
        ELSE IF 0 \in dcols THEN FitRet("IndexError", g.d, g.groups, "none", "none")
        ELSE FitResult(g, ErrorKind(num.v, den.v),
                       waveform_mismatch(h_ring, h_QNM, modes2, times[1], times[2]))

\* Line 400 onwards: g is the outcome of the loop over m_list.
FinalSynth(g, h_ring, modes, times, chi_f, M_f, t_ref) ==
    IF g.status # "ok" THEN FitRet(g.status, g.d, g.groups, "none", "none")
    ELSE FitScores(g, qnm_modes_as(chi_f, M_f, g.d, h_ring, NoDest, t_ref),
                   h_ring, modes, times)

fit_ringdown_waveform_LLSQ_S2(h_ring, modes, times, chi_f, M_f, fixed_QNMs, t_ref) ==
    FinalSynth(FitGroups(fixed_QNMs, m_list(fixed_QNMs, Len(fixed_QNMs)), 1,
                         h_ring, modes, chi_f, M_f, t_ref, <<>>),
               h_ring, modes, times, chi_f, M_f, t_ref)

(***************************************************************************)
(* The calls of the fitter the model draws: the target is the waveform     *)
(* synthesized from the fixed terms with known amplitudes (amps), and the  *)
(* fitter gets the same terms with the amplitudes unset.                   *)
(***************************************************************************)
FitLabels ==
    {<<2, 2, 0, 1>>, <<3, 2, 0, 1>>, <<2, 1, 0, 1>>, <<3, 3, 0, 1>>, <<3, -3, 0, 1>>}

FitKeys == {<<0, 1>>, <<1, 0>>, <<3, 4>>}

\* Dictionaries of one or two terms: [keys, labels, amps].
FitDictShapes ==
    {[keys |-> <<k[1]>>, labels |-> <<a>>, amps |-> <<x>>] :
        k \in {<<0, 1>>, <<3, 4>>}, a \in FitLabels, x \in 1..MaxAmp}
    \cup {[keys |-> k, labels |-> <<a, b>>, amps |-> <<x, 1>>] :
        k \in FitKeys, a \in FitLabels, b \in FitLabels, x \in 1..MaxAmp}

DictOf(sh, withA) ==
    [p \in 1..Len(sh.keys) |->
        [key |-> sh.keys[p],
         term |-> QNMTerm(sh.labels[p], IF withA THEN sh.amps[p] ELSE 0, withA)]]

FitModeLists ==
    {NoModes} \cup
    {[given |-> TRUE, list |-> l] :
        l \in {{<<2, 2>>}, {<<2, 2>>, <<3, 2>>}, {<<3, 3>>, <<3, -3>>}}}

\* The remnant spin: a scalar, with mixing between the ells.
ScalarChi == [is_array |-> FALSE, value |-> 1]

ScalarMass == [is_array |-> FALSE, value |-> 1]

\* The fixed terms with the amplitudes the target is generated with.
KnownTerms(d, amps) ==
    [p \in 1..Len(d) |-> [key |-> d[p].key, term |-> QNMTerm(d[p].term.mode, amps[p], TRUE)]]

InitFit ==
    /\ pc = "synth"
    /\ \E n \in 0..MaxN, r \in EllRanges, sh \in FitDictShapes, ms \in FitModeLists,
          t2 \in {0, MaxN} :
          LET t == [i \in 1..n |-> i - 1]
          IN  /\ \A md \in ms.list : r[1] <= md[1] /\ md[1] <= r[2]
              /\ call = [h_ring |-> Waveform(t, r[1], r[2], ZeroData(n, n_modes(r[1], r[2]))),
                         modes |-> ms, times |-> <<0, t2>>, chi_f |-> ScalarChi,
                         M_f |-> ScalarMass, fixed_QNMs |-> DictOf(sh, FALSE),
                         t_ref |-> 0, amps |-> sh.amps]
    /\ ret = FitRet("none", <<>>, <<>>, "none", "none")

\* The target of the fit: qnm_modes_as on the time axis and the ell range of
\* h_ring, from the fixed terms with their known amplitudes.
SynthesizeTarget ==
    /\ pc = "synth"
    /\ LET target == qnm_modes_as(call.chi_f, call.M_f,
                                  KnownTerms(call.fixed_QNMs, call.amps),
                                  call.h_ring, NoDest, call.t_ref)
       IN  /\ target.status = "ok"
           /\ call' = [call EXCEPT !.h_ring.data = target.data]
    /\ pc' = "call"
    /\ UNCHANGED ret

CallFit ==
    /\ pc = "call"
    /\ ret' = fit_ringdown_waveform_LLSQ_S2(call.h_ring, call.modes, call.times, call.chi_f,
                                            call.M_f, call.fixed_QNMs, call.t_ref)
    /\ pc' = "done"
    /\ UNCHANGED call

NextFit == SynthesizeTarget \/ CallFit

SpecFit == InitFit /\ [][NextFit]_vars

(***************************************************************************)
(* Claims about qnm_modes, checked under SpecSynth.                        *)
(***************************************************************************)
WellFormedQNM(term) ==
    term.type = "QNM" /\ term.hasA /\ term.mode[4] \in {1, -1}

\* What the terms add up to at sample i, column c, when a mode whose ell is
\* not in a term's mixing array receives nothing from that term.
ExpectedSample(i, c) ==
    LET LM == LMarray(call.ell_min, call.ell_max)
        part == [k \in 1..Len(call.mode_dict) |->
            LET term == call.mode_dict[k].term
                q == qnm_from_tuple(term.mode, ChiAt(call.chi, i - 1), 1)
            IN  IF LM[c][2] = term.mode[2] /\ LM[c][1] \in q.ells
                THEN term.A * Pow(q.z, call.t[i] - call.t_ref) * q.C[LM[c][1]]
                ELSE 0]
    IN  SumTo(part, Len(call.mode_dict))

\* C8: a QNM term contributes zero to an output mode (l', m) whose l' is not
\* in the oracle's mixing ells, and synthesis completes, on both paths.
C8_MissingEllContributesZero ==
    (/\ pc = "done"
     /\ \A k \in 1..Len(call.mode_dict) : WellFormedQNM(call.mode_dict[k].term)
     /\ ~call.dest.given)
        => /\ ret.status = "ok"
           /\ \A i \in 1..Len(call.t) :
                  \A c \in 1..n_modes(call.ell_min, call.ell_max) :
                      ret.data[i][c] = ExpectedSample(i, c)

InvalidArgument == {"ValueError:sign", "ValueError:type"}

\* C9 as stated: whenever qnm_modes fails with ShapeMismatch or with
\* InvalidArgument, dest holds the contents it held before the call.
C9_FailureLeavesDest ==
    (pc = "done" /\ call.dest.given /\ ret.status \in InvalidArgument \cup {"TypeError"})
        => ret.dest = call.dest

\* The items of the dictionary before the first one that is not well typed
\* or signed.
ValidPrefix(d) ==
    LET bad == {k \in 1..Len(d) :
                   d[k].term.type \notin {"QNM", "other"}
                   \/ (d[k].term.type = "QNM" /\ d[k].term.mode[4] \notin {1, -1})}
    IN  IF bad = {} THEN d ELSE SubSeq(d, 1, (CHOOSE k \in bad : \A j \in bad : k <= j) - 1)

\* C9 amended: when qnm_modes fails with ShapeMismatch, dest holds the
\* contents it held before the call; when it fails with InvalidArgument,
\* dest has been zeroed and holds the contributions of the terms that
\* precede the offending one.
C9_ShapeMismatchLeavesDest ==
    (pc = "done" /\ call.dest.given)
        => /\ ret.status = "TypeError" => ret.dest = call.dest
           /\ ret.status \in InvalidArgument =>
                  ret.dest.data =
                      qnm_modes(call.chi, call.mass, ValidPrefix(call.mode_dict), NoDest,
                                call.t_ref, call.t, call.ell_min, call.ell_max).data

\* C9 witness: a float dest of the wrong shape handed to a synthesis over at
\* least one time sample; the call raises TypeError and dest keeps its 7s.
C9_Witness ==
    /\ pc = "done" /\ ret.status = "TypeError" /\ Len(call.t) >= 1
    /\ call.dest.given /\ call.dest.dtype = "float" /\ call.dest.shape[1] >= 1
    /\ ret.dest.data[1][1] = 7

(***************************************************************************)
(* Claims about fit_ringdown_waveform_LLSQ_S2, checked under SpecFit.      *)
(***************************************************************************)
\* The m of the mode subset, and the terms' m it leaves out.
ModesM == {q[2] : q \in call.modes.list}

SomeMOutsideModes ==
    /\ call.modes.given
    /\ \E p \in 1..Len(call.fixed_QNMs) : call.fixed_QNMs[p].term.mode[2] \notin ModesM

\* A target with ell from 2 and three samples or more, fitted over the whole
\* window with terms whose own mode (ell, m) is a mode of the target.
PlainTarget ==
    /\ call.h_ring.ell_min = 2 /\ Len(call.h_ring.t) >= 3 /\ call.times[2] = MaxN
    /\ \A p \in 1..Len(call.fixed_QNMs) :
           call.fixed_QNMs[p].term.mode[1] <= call.h_ring.ell_max

\* A plain target fitted in every mode with terms of distinct labels.
PlainFit ==
    /\ PlainTarget /\ ~call.modes.given
    /\ \A p \in 1..Len(call.fixed_QNMs) : \A q \in 1..Len(call.fixed_QNMs) :
           p # q => call.fixed_QNMs[p].term.mode # call.fixed_QNMs[q].term.mode

AmplitudesRecovered ==
    \A p \in 1..Len(call.fixed_QNMs) :
        /\ ret.fixed_QNMs[p].term.hasA
        /\ ret.fixed_QNMs[p].term.A = call.amps[p]

\* C1: fitting the waveform synthesized from a term dictionary returns, for
\* every term, the amplitude it was synthesized with, and error 0 and
\* mismatch 0.
C1_RoundTrip ==
    (pc = "done" /\ PlainFit)
        => /\ ret.status = "ok"
           /\ AmplitudesRecovered
           /\ ret.error = "zero" /\ ret.mismatch = "zero"

\* The round trip does hold when the keys are 0..n-1 in insertion order.
RoundTripOrderedKeys ==
    (pc = "done" /\ PlainFit
        /\ \A p \in 1..Len(call.fixed_QNMs) : call.fixed_QNMs[p].key = p - 1)
        => /\ ret.status = "ok"
           /\ AmplitudesRecovered
           /\ ret.error = "zero" /\ ret.mismatch = "zero"

\* C2: whatever the keys and the order of the terms, every solved amplitude
\* is stored in the term it was solved for, every term gets one, and no key
\* lookup fails.
C2_AmplitudeOnItsTerm ==
    (pc = "done" /\ PlainFit)
        => /\ ret.status # "KeyError"
           /\ \A j \in 1..Len(ret.groups) : \A k \in 1..Len(ret.groups[j].writes) :
                  ret.groups[j].writes[k].solved = ret.groups[j].writes[k].stored
           /\ \A p \in 1..Len(ret.fixed_QNMs) : ret.fixed_QNMs[p].term.hasA

\* C3 as stated: an m of a fixed term that is in no pair of the mode subset
\* still gets its solve over the target's full ell range, and the fit
\* completes.
C3_MissingMFitsFullRange ==
    (pc = "done" /\ SomeMOutsideModes /\ PlainTarget)
        => /\ ret.status = "ok"
           /\ \A j \in 1..Len(ret.groups) :
                  ret.groups[j].m \notin ModesM =>
                      /\ ret.groups[j].ell_min_m = call.h_ring.ell_min
                      /\ ret.groups[j].ell_max_m = call.h_ring.ell_max

\* C3 amended: when an m of a fixed term is in no pair of the mode subset,
\* the fit does not complete: the first such m-group it reaches raises
\* ValueError (min() of an empty sequence) before it selects any ell range,
\* unless an earlier group has already failed.
C3_MissingMFails ==
    (pc = "done" /\ SomeMOutsideModes)
        => /\ ret.status # "ok"
           /\ Len(ret.groups) >= 1
           /\ \A j \in 1..Len(ret.groups) :
                  ret.groups[j].m \notin ModesM =>
                      /\ j = Len(ret.groups)
                      /\ ret.status = "ValueError:min"

\* C3 witness: a fit whose first m-group is in the mode subset and is solved,
\* and whose second m-group is in no pair of the subset and raises.
C3_Witness ==
    /\ pc = "done" /\ SomeMOutsideModes /\ PlainTarget
    /\ Len(ret.groups) = 2
    /\ ret.groups[1].m \in ModesM
    /\ ret.groups[2].m \notin ModesM
    /\ ret.status = "ValueError:min"

\* C4: the caller's dictionary and its terms are unchanged by the call,
\* whether it returns or fails.
C4_CallerDictUnchanged ==
    (pc = "done" /\ PlainTarget) => ret.fixed_QNMs = call.fixed_QNMs

\* C10: for every m-group the selected column indices are exactly the
\* columns of the modes (l, m) with l in ell_min_m..ell_max_m and l >= |m|,
\* and there are ell_max_m - ell_min_m + 1 of them.
C10_SelectedColumns ==
    (pc = "done" /\ PlainFit)
        => \A j \in 1..Len(ret.groups) :
               LET g == ret.groups[j]
               IN  /\ {g.data_index[k] : k \in 1..Len(g.data_index)}
                        = {LM_index(l, g.m, call.h_ring.ell_min) :
                              l \in {x \in g.ell_min_m..g.ell_max_m : x >= Abs(g.m)}}
                   /\ Len(g.data_index) = g.ell_max_m - g.ell_min_m + 1

(***************************************************************************)
(* Claims about waveform_mismatch, checked under SpecMismatch.             *)
(***************************************************************************)
\* The samples of h the window [argmin(t1) + 1 : argmin(t2) + 1] selects.
Windowed(h, t1, t2) == TimeSlice(h, argmin_abs(h.t, t1) + 1, argmin_abs(h.t, t2) + 1)

IdenticalCall == call.h_A = call.h_B /\ ~call.modes.given

\* A call on two waveforms of the same ell range with at least two samples
\* each, none of them zero.
NonzeroCall ==
    /\ Len(call.h_A.t) >= 2 /\ Len(call.h_B.t) >= 2
    /\ call.h_A.ell_min = call.h_B.ell_min /\ call.h_A.ell_max = call.h_B.ell_max
    /\ call.h_A.data[1][1] # 0 /\ call.h_B.data[1][1] # 0

WindowHasPower ==
    LET w == Windowed(call.h_A, call.t1, call.t2)
    IN  /\ Len(w.t) >= 2
        /\ \E i \in 1..Len(w.data) : \E c \in 1..Len(w.data[i]) : w.data[i][c] # 0

\* C5 as stated: for identical (nonzero) waveforms of two samples or more and any
\* window, also one that selects no sample or a single one, the mismatch
\* returned is 0, never an undefined value, and the call never fails.
C5_IdenticalAnyWindowZero ==
    (pc = "done" /\ IdenticalCall /\ NonzeroCall)
        => (ret.status = "ok" /\ ret.kind = "zero")

\* C5 amended: for identical waveforms and a window that selects at least two
\* samples on which the waveform is not identically zero, the mismatch is 0.
C5_IdenticalZero ==
    (pc = "done" /\ IdenticalCall /\ WindowHasPower)
        => (ret.status = "ok" /\ ret.kind = "zero")

\* C5 witness: identical waveforms, a window of two samples or more that is
\* shorter than the waveform, B resampled at A's times, mismatch 0.
C5_Witness ==
    /\ pc = "done" /\ IdenticalCall /\ WindowHasPower /\ NonzeroCall
    /\ Len(Windowed(call.h_A, call.t1, call.t2).t) < Len(call.h_A.t)
    /\ ret.branch = "interpolate" /\ ret.kind = "zero"

\* C6: B is interpolated exactly when its sample count after its own t1/t2
\* restriction differs from that of the restricted A, is windowed otherwise,
\* and either way the two integrated waveforms have equally many samples.
C6_BranchByRestrictedCounts ==
    (pc = "done" /\ ret.branch # "none" /\ NonzeroCall)
        => /\ (ret.branch = "interpolate")
                <=> (Len(Windowed(call.h_B, call.t1, call.t2).t)
                        # Len(Windowed(call.h_A, call.t1, call.t2).t))
           /\ ret.status = "ok" => ret.nA = ret.nB

\* z is h with exactly the columns outside the mode list set to zero.
ZeroedExactly(h, z, list) ==
    LET LM == LMarray(h.ell_min, h.ell_max)
    IN  /\ Len(z) = Len(h.data)
        /\ \A i \in 1..Len(h.data) : \A c \in 1..NCols(h) :
               z[i][c] = IF LM[c] \in list THEN h.data[i][c] ELSE 0

\* C7: with a mode subset given, after the zeroing step every column outside
\* the subset is zero in both copies and every column in it keeps its values,
\* whatever the minimum and maximum ell of the two waveforms.
C7_ZeroingExact ==
    (pc = "done" /\ call.modes.given /\ NonzeroCall)
        => /\ ret.status # "IndexError"
           /\ ZeroedExactly(call.h_A, ret.zA, call.modes.list)
           /\ ZeroedExactly(call.h_B, ret.zB, call.modes.list)

====
